---- MODULE Spec2Model ----
(***************************************************************************)
(* A model of bot.py: the AGAMA token buy-alert bot.                       *)
(*                                                                         *)
(* The process has one main thread (module import, the __main__ block and  *)
(* the coroutine listen_for_new_blocks run by asyncio.run) and the daemon  *)
(* threading.Timer thread that runs send_reminder.                         *)
(*                                                                         *)
(* Encodings.                                                              *)
(*   - A Python string is a sequence of characters (one-letter strings).   *)
(*   - An optional value (os.environ.get, tx.to, a global that may be      *)
(*     None) is a set with at most one element: {} is None, {s} is s.      *)
(*   - A wei amount is [gwei, wei], standing for gwei * 10^9 + wei, since  *)
(*     amounts around 0.025 * 10^18 exceed 32-bit integers.               *)
(*   - asyncio.run raises RuntimeError("asyncio.run() cannot be called     *)
(*     from a running event loop") when the calling thread already runs an *)
(*     event loop (CPython, asyncio/runners.py); the argument coroutine    *)
(*     has been created by then but never runs.                            *)
(***************************************************************************)
EXTENDS Integers, Sequences, FiniteSets, TLC

VARIABLES
    TELEGRAM_BOT_TOKEN,      \* bot.py:26, optional string
    TELEGRAM_CHAT_ID,        \* bot.py:27, optional string
    QUICKNODE_WSS_URL,       \* bot.py:28, optional string
    TOKEN_CONTRACT_ADDRESS,  \* bot.py:29, optional string
    bot,                     \* bot.py:37, {} before construction, {token} after
    w3,                      \* bot.py:38/172, {} is None, else the HTTP instance
    mpc,                     \* position of the main thread in the script
    exitCode,                \* {} while the process runs, {status} once it ended
    timer,                   \* deadlines of the pending threading.Timers
    lastFire,                \* time send_reminder was last entered: {} or {t}
    prevFire,                \* time of the firing before that: {} or {t}
    fires,                   \* number of firings of send_reminder so far
    lastReminder,            \* outcome of the last bot.send_message
    lpc,                     \* position of listen_for_new_blocks
    loopRunning,             \* the main thread is inside asyncio.run
    attempts,                \* connection attempts (entries of line 131)
    connAlive,               \* the websocket connection is alive
    cancelled,               \* a CancelledError was delivered to the listener
    pass                     \* log of handle_new_block in the current iteration
                             \* of the while loop (lines 139-154)

vars == <<TELEGRAM_BOT_TOKEN, TELEGRAM_CHAT_ID, QUICKNODE_WSS_URL,
          TOKEN_CONTRACT_ADDRESS, bot, w3, mpc, exitCode, timer, lastFire,
          prevFire, fires, lastReminder, lpc, loopRunning, attempts,
          connAlive, cancelled, pass>>

configVars == <<TELEGRAM_BOT_TOKEN, TELEGRAM_CHAT_ID, QUICKNODE_WSS_URL,
                TOKEN_CONTRACT_ADDRESS>>

reminderVars == <<timer, lastFire, prevFire, fires, lastReminder>>

listenerVars == <<lpc, loopRunning, attempts, connAlive, cancelled, pass>>

----------------------------------------------------------------------------
(* Bounds of the model *)

\* a fetched block holds at most MaxTxs transactions
MaxTxs == 2

\* send_reminder fires at most MaxFirings times in a run
MaxFirings == 2

\* bot.send_message takes 0..MaxSendDur seconds
MaxSendDur == 1

\* the listener makes at most MaxAttempts connection attempts
MaxAttempts == 2

----------------------------------------------------------------------------
(* Python values *)

None == {}

Some(x) == {x}

\* the value of an optional known to be present
The(o) == CHOOSE x \in o : TRUE

\* Python truthiness of an optional string: None and "" are falsy
Truthy(o) == o # None /\ o # Some(<<>>)

\* str.lower() on one character
LowerChar(c) ==
    CASE c = "A" -> "a"
      [] c = "B" -> "b"
      [] c = "C" -> "c"
      [] OTHER -> c

\* str.lower()
Lower(s) == [i \in DOMAIN s |-> LowerChar(s[i])]

\* QUICKNODE_WSS_URL.replace("wss://", "https://"), the scheme being the
\* first element of a modelled URL
ReplaceScheme(url) ==
    [i \in DOMAIN url |-> IF url[i] = "wss://" THEN "https://" ELSE url[i]]

\* the values an environment variable is started with: unset, empty, set
TokenEnv == {None, Some(<<>>), Some(<<"t">>)}
ChatEnv == {None, Some(<<>>), Some(<<"c">>)}
UrlEnv == {None, Some(<<>>), Some(<<"wss://", "h">>)}
AddressEnv == {None, Some(<<>>), Some(<<"a", "B">>)}

----------------------------------------------------------------------------
(* Amounts *)

\* the number of wei in one gwei is 10^9; an amount is [gwei, wei] with
\* 0 <= wei < 10^9.  One ether is 10^9 gwei.
Wei(g, w) == [gwei |-> g, wei |-> w]

\* MIN_BNB_PURCHASE = 0.025 is a Python float: the IEEE-754 double nearest to
\* 0.025, which is exactly
\*   0.025000000000000001387778780781445675529539585113525390625,
\* that is 25000000 gwei + 1 wei + a non-zero fraction of a wei.
MIN_BNB_PURCHASE == [gwei |-> 25000000, wei |-> 1, frac |-> TRUE]

\* bnb_value >= MIN_BNB_PURCHASE, where bnb_value = w3.fromWei(value, 'ether')
\* is the exact Decimal value / 10^18 and Python compares a Decimal with a
\* float exactly: value >= threshold, both in wei.
FromWeiGE(value, threshold) ==
    \/ value.gwei > threshold.gwei
    \/ /\ value.gwei = threshold.gwei
       /\ \/ value.wei > threshold.wei
          \/ value.wei = threshold.wei /\ ~threshold.frac

----------------------------------------------------------------------------
(* asyncio *)

\* asyncio.run(coro) called from a thread whose event loop state is
\* `running`: it raises RuntimeError when a loop is already running there
AsyncioRunRaises(running) == running

----------------------------------------------------------------------------
(* Blocks and transactions *)

\* the recipients a transaction is drawn with: absent (contract creation),
\* the watched address in another letter case, another address
Recipients == {None, Some(<<"A", "b">>), Some(<<"c", "b">>)}

\* the amounts a transaction is drawn with: 0.01, exactly 0.025, 0.03 ether
Amounts == {Wei(10000000, 0), Wei(25000000, 0), Wei(30000000, 0)}

Txs == [to : Recipients, value : Amounts]

\* block.transactions of a fetched block: up to MaxTxs transactions; the
\* hash of a transaction is its position in the block
Blocks == UNION {[1..n -> Txs] : n \in 0..MaxTxs}

\* how a call of bot.send_photo / bot.send_message ends
SendOutcomes == {"ok", "TelegramError", "Exception"}

\* line 112: tx.to and tx.to.lower() == TOKEN_CONTRACT_ADDRESS.lower()
\* (evaluated only when TOKEN_CONTRACT_ADDRESS is a string)
MatchesContract(tx) ==
    /\ Truthy(tx.to)
    /\ Lower(The(tx.to)) = Lower(The(TOKEN_CONTRACT_ADDRESS))

\* line 112 raises AttributeError when tx.to is truthy and
\* TOKEN_CONTRACT_ADDRESS is None (None has no lower())
MatchRaises(tx) == Truthy(tx.to) /\ TOKEN_CONTRACT_ADDRESS = None

\* Qualifies without the comparison of the recipient with the watched address
Qualifies_AnyRecipient(tx) ==
    Truthy(tx.to) /\ FromWeiGE(tx.value, MIN_BNB_PURCHASE)

\* lines 112-114: the transaction reaches line 115
Qualifies(tx) ==
    MatchesContract(tx) /\ FromWeiGE(tx.value, MIN_BNB_PURCHASE)

\* send_telegram_alert, lines 45-69: bot.send_photo is called once and ends
\* with `outcome`; both except clauses swallow the error, so the coroutine
\* always returns normally.  The result is what escapes the coroutine.
send_telegram_alert(outcome) ==
    CASE outcome = "ok" -> "none"
      [] outcome = "TelegramError" -> "none"
      [] OTHER -> "none"

\* the log of a pass of handle_new_block before its first statement
\*   fetches: calls of w3.eth.get_block made by the pass (line 106)
\*   phase:   "idle" before any header, "running" from the receipt of a
\*            header until handle_new_block has returned, then "done"
\*   again:   None, or for a pass over a block whose header was delivered
\*            again, what the earlier pass over that block did
EmptyPass ==
    [fetched |-> FALSE, block |-> <<>>, evaluated |-> 0, alertCalls |-> <<>>,
     sent |-> <<>>, err |-> "none", raised |-> "none", fetches |-> 0,
     phase |-> "idle", again |-> None]

\* HandleExcept without the except clause: the exception escapes
HandleExcept_Propagates(err) == err

\* lines 120-121: except Exception catches whatever the body raised; nothing
\* escapes handle_new_block
HandleExcept(err) == "none"

\* lines 109-119, the loop over block.transactions from position i on.
\*   evaluated:  transactions whose test at line 112 was started
\*   alertCalls: positions for which send_telegram_alert(...) was called at
\*               line 119 (the coroutine object was created)
\*   sent:       <<position, outcome>> of every bot.send_photo call
\*   err:        the exception that ended the loop early
RECURSIVE TxLoop(_, _, _, _, _)
TxLoop(txs, i, running, notify, acc) ==
    IF i > Len(txs) THEN acc
    ELSE
        LET tx == txs[i]
            acc1 == [acc EXCEPT !.evaluated = i]
        IN  IF MatchRaises(tx)
            THEN [acc1 EXCEPT !.err = "AttributeError"]
            ELSE IF ~Qualifies(tx)
            THEN TxLoop(txs, i + 1, running, notify, acc1)
            ELSE
                LET acc2 == [acc1 EXCEPT !.alertCalls = Append(@, i)]
                IN  IF AsyncioRunRaises(running)
                    THEN [acc2 EXCEPT !.err = "RuntimeError"]
                    ELSE
                        LET acc3 == [acc2 EXCEPT
                                       !.sent = Append(@, <<i, notify[i]>>),
                                       !.err = send_telegram_alert(notify[i])]
                        IN  IF acc3.err # "none" THEN acc3
                            ELSE TxLoop(txs, i + 1, running, notify, acc3)

\* the positions of the fetched block for which line 119 can be reached: the
\* transactions an outcome of bot.send_photo is drawn for
AlertPositions(got) ==
    IF got = None THEN {}
    ELSE {i \in DOMAIN The(got) :
             ~MatchRaises(The(got)[i]) /\ Qualifies(The(got)[i])}

\* handle_new_block with a record of the blocks already processed: a block
\* seen before is fetched and skipped
handle_new_block_SkipsSeen(got, notify, running) ==
    LET seen == got # None /\ pass.again # None
                /\ The(got) = The(pass.again).block
        body ==
            IF got = None
            THEN [EmptyPass EXCEPT !.err = "FetchError", !.fetches = 1]
            ELSE IF seen
            THEN [EmptyPass EXCEPT !.fetched = TRUE, !.block = The(got),
                                   !.fetches = 1,
                                   !.evaluated = Len(The(got))]
            ELSE TxLoop(The(got), 1, running, notify,
                        [EmptyPass EXCEPT !.fetched = TRUE,
                                          !.block = The(got),
                                          !.fetches = 1])
    IN  [body EXCEPT !.raised = HandleExcept(body.err), !.phase = "done"]

\* handle_new_block calling w3.eth.get_block a second time when it raised
handle_new_block_RetriesFetch(got, notify, running) ==
    LET body ==
            IF got = None
            THEN [EmptyPass EXCEPT !.err = "FetchError", !.fetches = 2]
            ELSE TxLoop(The(got), 1, running, notify,
                        [EmptyPass EXCEPT !.fetched = TRUE,
                                          !.block = The(got),
                                          !.fetches = 1])
    IN  [body EXCEPT !.raised = HandleExcept(body.err), !.phase = "done"]

\* handle_new_block, lines 101-121.  `got` is what w3.eth.get_block gives:
\* None when it raises, else the block; notify[i] is how bot.send_photo
\* would end for the transaction at position i (i in AlertPositions(got)).
handle_new_block(got, notify, running) ==
    LET body ==
            IF got = None
            THEN [EmptyPass EXCEPT !.err = "FetchError", !.fetches = 1]
            ELSE TxLoop(The(got), 1, running, notify,
                        [EmptyPass EXCEPT !.fetched = TRUE,
                                          !.block = The(got),
                                          !.fetches = 1])
    IN  [body EXCEPT !.raised = HandleExcept(body.err), !.phase = "done"]

----------------------------------------------------------------------------
(* Initial state: the interpreter has read the environment, lines 26-29 *)

Init ==
    /\ TELEGRAM_BOT_TOKEN \in TokenEnv
    /\ TELEGRAM_CHAT_ID \in ChatEnv
    /\ QUICKNODE_WSS_URL \in UrlEnv
    /\ TOKEN_CONTRACT_ADDRESS \in AddressEnv
    /\ bot = None
    /\ w3 = None
    /\ mpc = "import"
    /\ exitCode = None
    /\ timer = None
    /\ lastFire = None
    /\ prevFire = None
    /\ fires = 0
    /\ lastReminder = "none"
    /\ lpc = "notstarted"
    /\ loopRunning = FALSE
    /\ attempts = 0
    /\ connAlive = FALSE
    /\ cancelled = FALSE
    /\ pass = EmptyPass

----------------------------------------------------------------------------
(* Process bootstrap: module level and the __main__ block *)

\* the process ends with `status`; the daemon timer dies with it
Exit(status) ==
    /\ mpc' = "exited"
    /\ exitCode' = Some(status)

\* line 37: bot = Bot(token=TELEGRAM_BOT_TOKEN).  Bot() raises InvalidToken
\* for a missing or empty token; the exception is uncaught at module level
\* and the interpreter ends with status 1.
ConstructBot ==
    /\ mpc = "import"
    /\ IF Truthy(TELEGRAM_BOT_TOKEN)
       THEN /\ bot' = Some(The(TELEGRAM_BOT_TOKEN))
            /\ mpc' = "validate"
            /\ UNCHANGED exitCode
       ELSE /\ Exit(1)
            /\ UNCHANGED bot
    /\ UNCHANGED <<configVars, w3, reminderVars, listenerVars>>

\* AllSet without TOKEN_CONTRACT_ADDRESS in the list
AllSet_ForgetsAddress ==
    /\ Truthy(TELEGRAM_BOT_TOKEN)
    /\ Truthy(TELEGRAM_CHAT_ID)
    /\ Truthy(QUICKNODE_WSS_URL)

\* line 164: all([TELEGRAM_BOT_TOKEN, TELEGRAM_CHAT_ID, QUICKNODE_WSS_URL,
\* TOKEN_CONTRACT_ADDRESS])
AllSet ==
    /\ Truthy(TELEGRAM_BOT_TOKEN)
    /\ Truthy(TELEGRAM_CHAT_ID)
    /\ Truthy(QUICKNODE_WSS_URL)
    /\ Truthy(TOKEN_CONTRACT_ADDRESS)

\* lines 164-169: exit(1) unless every required setting is set
Validate ==
    /\ mpc = "validate"
    /\ IF AllSet
       THEN mpc' = "init_w3" /\ UNCHANGED exitCode
       ELSE Exit(1)
    /\ UNCHANGED <<configVars, bot, w3, reminderVars, listenerVars>>

\* Reachable that lets an unreachable endpoint pass
Reachable_Unchecked(outcome) == outcome # "raise"

\* Reachable that lets every outcome pass, a raised exception included
Reachable_Always(outcome) == TRUE

\* lines 174-178: the try block is left normally only when w3.is_connected()
\* returned True
Reachable(outcome) == outcome = "connected"

\* lines 171-178: the HTTP instance for get_block.  Web3(...) or the
\* middleware injection raises ("raise": w3 is still None), or w3 is
\* assigned and is_connected() is False ("unreachable") or True
\* ("connected"); every failure ends in exit(1).  The instance records its
\* provider URL and what is_connected() answered.
InitWeb3 ==
    /\ mpc = "init_w3"
    /\ \E outcome \in {"connected", "unreachable", "raise"} :
          /\ w3' = IF outcome = "raise" THEN w3
                   ELSE Some([provider |->
                                  ReplaceScheme(The(QUICKNODE_WSS_URL)),
                              connected |-> outcome = "connected"])
          /\ IF Reachable(outcome)
             THEN mpc' = "start_timer" /\ UNCHANGED exitCode
             ELSE Exit(1)
    /\ UNCHANGED <<configVars, bot, reminderVars, listenerVars>>

\* the period of the reminder, lines 96 and 182: Timer(30 * 60, ...)
REMINDER_INTERVAL == 30 * 60

\* lines 181-184: the first timer, started at time 0 of the model's clock
StartTimer ==
    /\ mpc = "start_timer"
    /\ timer' = Some(0 + REMINDER_INTERVAL)
    /\ mpc' = "start_listener"
    /\ UNCHANGED <<configVars, bot, w3, exitCode, lastFire, prevFire, fires,
                   lastReminder, listenerVars>>

\* lines 187-188: asyncio.run(listen_for_new_blocks()) starts the event loop
\* of the main thread and enters the coroutine (line 128)
StartListener ==
    /\ mpc = "start_listener"
    /\ mpc' = "listening"
    /\ loopRunning' = TRUE
    /\ lpc' = "connecting"
    /\ UNCHANGED <<configVars, bot, w3, exitCode, reminderVars, attempts,
                   connAlive, cancelled, pass>>

----------------------------------------------------------------------------
(* Reminder scheduler: send_reminder on the timer thread *)

\* lines 77-93: asyncio.run(bot.send_message(...)) on the timer thread, which
\* runs no event loop of its own; whatever the send raises is swallowed
ReminderSendResult(outcome) ==
    IF AsyncioRunRaises(FALSE) THEN "RuntimeError" ELSE outcome

\* lines 95-98: the next timer is created when the send has finished, that
\* is `d` seconds after the firing at `t`, and expires one interval later
NextDeadline(t, d) == t + d + REMINDER_INTERVAL

\* Successors with a second Timer started inside the try block, before the
\* send
Successors_AlsoInTry(t, d) == {NextDeadline(t, 0), NextDeadline(t, d)}

\* lines 96-98: the timers a firing at t starts: one
Successors(t, d) == {NextDeadline(t, d)}

\* ReminderRunnable for a callback scheduled on the event loop of the main
\* thread: it runs only while the coroutine is suspended at an await
ReminderRunnable_OnEventLoop ==
    exitCode = None /\ lpc \in {"notstarted", "connecting", "subscribed"}

\* lines 96-98, 182-184: send_reminder runs on the thread of its
\* threading.Timer, a daemon thread: it runs whenever the process is alive,
\* whatever the main thread is doing (time.sleep and blocking network calls
\* release the interpreter lock)
ReminderRunnable == exitCode = None

\* send_reminder, lines 72-98: a pending timer expires at its deadline t,
\* the send takes d seconds and ends with `outcome`, the next timer starts.
\* `timer` is the set of deadlines of the timers that are pending.
send_reminder ==
    /\ ReminderRunnable
    /\ fires < MaxFirings
    /\ \E t \in timer, d \in 0..MaxSendDur, outcome \in SendOutcomes :
          /\ lastFire' = Some(t)
          /\ prevFire' = lastFire
          /\ lastReminder' = ReminderSendResult(outcome)
          /\ timer' = (timer \ {t}) \cup Successors(t, d)
    /\ fires' = fires + 1
    /\ UNCHANGED <<configVars, bot, w3, mpc, exitCode, listenerVars>>

----------------------------------------------------------------------------
(* Chain listener: listen_for_new_blocks *)

\* the coroutine ends (returns or lets an exception escape); asyncio.run at
\* line 188 ends with it and so does the script
ListenerEnds(how, status) ==
    /\ lpc' = how
    /\ loopRunning' = FALSE
    /\ Exit(status)

\* lines 131-137: one connection attempt: open the websocket, build w3_ws,
\* subscribe to newHeads.  "ok": subscribed.  "fail": an Exception, caught
\* at line 155.  "cancel": CancelledError at an await; it is a BaseException
\* and escapes the except clause of line 155.
Connect ==
    /\ lpc = "connecting"
    /\ attempts < MaxAttempts
    /\ attempts' = attempts + 1
    /\ \E outcome \in {"ok", "fail", "cancel"} :
          CASE outcome = "ok" ->
                  /\ lpc' = "subscribed"
                  /\ connAlive' = TRUE
                  /\ UNCHANGED <<loopRunning, cancelled, mpc, exitCode>>
            [] outcome = "fail" ->
                  /\ lpc' = "backoff5"
                  /\ connAlive' = FALSE
                  /\ UNCHANGED <<loopRunning, cancelled, mpc, exitCode>>
            [] OTHER ->
                  /\ ListenerEnds("cancelled", 1)
                  /\ connAlive' = FALSE
                  /\ cancelled' = TRUE
    /\ UNCHANGED <<configVars, bot, w3, reminderVars, pass>>

\* lines 156-159: the handler of a failed connection: time.sleep(5), then
\* asyncio.run(listen_for_new_blocks()) from inside the running coroutine.
\* When asyncio.run raises, the RuntimeError leaves the handler, the
\* coroutine and asyncio.run of line 188: the process ends with a traceback.
Backoff5 ==
    /\ lpc = "backoff5"
    /\ IF AsyncioRunRaises(loopRunning)
       THEN ListenerEnds("crashed", 1)
       ELSE lpc' = "connecting" /\ UNCHANGED <<loopRunning, mpc, exitCode>>
    /\ UNCHANGED <<configVars, bot, w3, reminderVars, attempts, connAlive,
                   cancelled, pass>>

\* LoopExcept leaving the connection context on an Exception
LoopExcept_TearsDown(exc) ==
    CASE exc = "none" -> "subscribed"
      [] exc = "CancelledError" -> "break"
      [] OTHER -> "backoff5"

\* lines 148-154: what the loop does with an exception raised in its body
LoopExcept(exc) ==
    CASE exc = "none" -> "subscribed"
      [] exc = "CancelledError" -> "break"
      [] OTHER -> "pause2"

\* AfterHeader handing the block to a worker and going on to receive()
AfterHeader_Dispatches == "subscribed"

\* line 147: handle_new_block is called synchronously from the coroutine,
\* which stays in the call until it returns
AfterHeader == "processing"

\* what a completed pass over a fetched block did, kept when the header of
\* the same block is delivered again
Earlier(p) ==
    [block |-> p.block, alertCalls |-> p.alertCalls,
     sent |-> [k \in DOMAIN p.sent |-> p.sent[k][1]]]

\* the blocks w3.eth.get_block can give for the header being processed: any
\* block for a new header, the same block for a header delivered again
FetchableBlocks ==
    IF pass.again = None THEN Blocks ELSE {The(pass.again).block}

\* lines 141-142 with 148-154: await new_block_filter.receive().
\*   "header": a header arrives (only on a live connection);
\*   "again":  the header of the block processed last arrives once more
\*             (for instance after a chain reorganisation notice);
\*   "error":  receive() raises an Exception;
\*   "cancel": CancelledError: break, then the async with block is left and
\*             releasing the connection either works (`release` is "ok", the
\*             coroutine returns) or raises (caught at line 155).
Receive ==
    /\ lpc = "subscribed"
    /\ \E outcome \in {"header", "again", "error", "cancel"},
          release \in {"ok", "raise"} :
          CASE outcome = "header" ->
                  /\ connAlive
                  /\ release = "ok"
                  /\ lpc' = AfterHeader
                  /\ pass' = [EmptyPass EXCEPT !.phase = "running"]
                  /\ UNCHANGED <<loopRunning, cancelled, connAlive, mpc,
                                 exitCode>>
            [] outcome = "again" ->
                  /\ connAlive
                  /\ release = "ok"
                  /\ pass.phase = "done"
                  /\ pass.fetched
                  /\ lpc' = AfterHeader
                  /\ pass' = [EmptyPass EXCEPT !.phase = "running",
                                               !.again = Some(Earlier(pass))]
                  /\ UNCHANGED <<loopRunning, cancelled, connAlive, mpc,
                                 exitCode>>
            [] outcome = "error" ->
                  /\ release = "ok"
                  /\ lpc' = LoopExcept("Exception")
                  /\ pass' = EmptyPass
                  /\ UNCHANGED <<loopRunning, cancelled, connAlive, mpc,
                                 exitCode>>
            [] OTHER ->
                  /\ LoopExcept("CancelledError") = "break"
                  /\ cancelled' = TRUE
                  /\ connAlive' = FALSE
                  /\ IF release = "ok"
                     THEN ListenerEnds("returned", 0)
                     ELSE /\ lpc' = "backoff5"
                          /\ UNCHANGED <<loopRunning, mpc, exitCode>>
                  /\ pass' = EmptyPass
    /\ UNCHANGED <<configVars, bot, w3, reminderVars, attempts>>

\* line 147: handle_new_block(block_number), a blocking call inside the
\* coroutine; then back to line 141, or to the handler of line 151 if an
\* exception escaped it
HandleNewBlock ==
    /\ lpc = "processing"
    /\ \E got \in {None} \cup {Some(b) : b \in FetchableBlocks} :
          \E notify \in [AlertPositions(got) -> SendOutcomes] :
              /\ pass' = [handle_new_block(got, notify, loopRunning)
                             EXCEPT !.again = pass.again]
              /\ lpc' = LoopExcept(pass'.raised)
    /\ UNCHANGED <<configVars, bot, w3, mpc, exitCode, reminderVars,
                   loopRunning, attempts, connAlive, cancelled>>

\* Pause2 that also drops the fetch connection so as to rebuild it
Pause2_DropsW3 ==
    /\ lpc = "pause2"
    /\ lpc' = "subscribed"
    /\ w3' = None
    /\ UNCHANGED <<configVars, bot, mpc, exitCode, reminderVars,
                   loopRunning, attempts, connAlive, cancelled, pass>>

\* line 154: time.sleep(2), then the next iteration of the while loop
Pause2 ==
    /\ lpc = "pause2"
    /\ lpc' = "subscribed"
    /\ UNCHANGED <<configVars, bot, w3, mpc, exitCode, reminderVars,
                   loopRunning, attempts, connAlive, cancelled, pass>>

\* the environment: the websocket connection dies under the subscription
LoseConnection ==
    /\ lpc \in {"subscribed", "processing", "pause2"}
    /\ connAlive
    /\ connAlive' = FALSE
    /\ UNCHANGED <<configVars, bot, w3, mpc, exitCode, reminderVars, lpc,
                   loopRunning, attempts, cancelled, pass>>

----------------------------------------------------------------------------
(* Specifications *)

Bootstrap == ConstructBot \/ Validate \/ InitWeb3 \/ StartTimer \/ StartListener

Listener == Connect \/ Backoff5 \/ Receive \/ HandleNewBlock \/ Pause2

Next == Bootstrap \/ send_reminder \/ Listener \/ LoseConnection

Spec == Init /\ [][Next]_vars

\* The main thread runs whenever it can: a step of the script or of the
\* coroutine that is enabled is eventually taken.
FairSpec == Spec /\ WF_vars(Bootstrap) /\ WF_vars(Listener)

----------------------------------------------------------------------------
(* Vocabulary of the properties, stated apart from the operators above *)

\* the listener has been started and the pass log is that of a fetched block
Fetched == pass.fetched

\* the elements of a sequence
Range(f) == {f[i] : i \in DOMAIN f}

\* 0.025 of the native unit, in wei: 25000000 gwei exactly
StatedMinimum == Wei(25000000, 0)

\* a >= b for two amounts
AmountGE(a, b) == a.gwei > b.gwei \/ (a.gwei = b.gwei /\ a.wei >= b.wei)

\* two strings are equal ignoring letter case
SameIgnoringCase(s, t) ==
    /\ Len(s) = Len(t)
    /\ \A i \in 1..Len(s) : LowerChar(s[i]) = LowerChar(t[i])

\* a qualifying purchase as the specification states it: the recipient is
\* present, equals the watched address ignoring case, and the value is at
\* least 0.025
StatedQualifying(tx) ==
    /\ tx.to # None
    /\ TOKEN_CONTRACT_ADDRESS # None
    /\ SameIgnoringCase(The(tx.to), The(TOKEN_CONTRACT_ADDRESS))
    /\ AmountGE(tx.value, StatedMinimum)

\* the positions of the stated qualifying transactions of a block, in order
StatedPositions(block) ==
    SelectSeq([i \in 1..Len(block) |-> i],
              LAMBDA i : StatedQualifying(block[i]))

\* the positions bot.send_photo was called for, in call order
SentPositions == [k \in DOMAIN pass.sent |-> pass.sent[k][1]]

\* an exception was raised while the alert of a transaction was being sent
AlertFailed(p) ==
    /\ p.alertCalls # <<>>
    /\ \/ p.err \notin {"none", "FetchError", "AttributeError"}
       \/ \E k \in DOMAIN p.sent : p.sent[k][2] # "ok"

\* one of the four required settings is missing or empty
SettingMissing ==
    \E v \in {TELEGRAM_BOT_TOKEN, TELEGRAM_CHAT_ID, QUICKNODE_WSS_URL,
              TOKEN_CONTRACT_ADDRESS} : v = None \/ v = Some(<<>>)

\* the listener states of the specification's state machine
Alive == {"connecting", "subscribed", "processing", "pause2", "backoff5"}

----------------------------------------------------------------------------
(* The claims *)

\* C1: every transaction the loop of handle_new_block reaches is treated as
\* a qualifying purchase (line 119 is reached for it) if and only if its
\* recipient is present, equals TOKEN_CONTRACT_ADDRESS ignoring case and its
\* value is at least 0.025 of the native unit, a value of exactly 0.025
\* included; nothing escapes handle_new_block.
C1_QualifiesIffStated ==
    Fetched =>
        /\ \A i \in 1..pass.evaluated :
              (i \in Range(pass.alertCalls)) <=> StatedQualifying(pass.block[i])
        /\ pass.raised = "none"

\* C2: when a fetched block holds N >= 1 qualifying transactions, exactly N
\* bot.send_photo calls occur while it is processed, one per qualifying
\* transaction, in block order.
C2_OneSendPerQualifying ==
    (Fetched /\ StatedPositions(pass.block) # <<>>) =>
        SentPositions = StatedPositions(pass.block)

\* C3: processing a fetched block without a qualifying transaction makes no
\* Notifier call: send_telegram_alert is not called and bot.send_photo is
\* not reached.
C3_NoQualifyingNoAlert ==
    (Fetched /\ StatedPositions(pass.block) = <<>>) =>
        /\ pass.alertCalls = <<>>
        /\ pass.sent = <<>>
        /\ pass.evaluated = Len(pass.block)

\* C3 witness: a block of two transactions, neither qualifying (one to the
\* watched address below the minimum, one above it to another address), has
\* been processed and the listener waits for the next header.
C3_Witness ==
    /\ Fetched
    /\ lpc = "subscribed"
    /\ Len(pass.block) = 2
    /\ pass.block[1] = [to |-> Some(<<"A", "b">>), value |-> Wei(10000000, 0)]
    /\ pass.block[2] = [to |-> Some(<<"c", "b">>), value |-> Wei(30000000, 0)]
    /\ pass.evaluated = 2

\* C4: an exception raised while a buy alert is sent never ends the listener
\* loop: the step of handle_new_block in which it happens leaves the listener
\* waiting on the same subscription, the event loop running and the process
\* alive.
C4_AlertFailureKeepsListening ==
    [][(lpc = "processing" /\ AlertFailed(pass')) =>
          /\ lpc' = "subscribed"
          /\ loopRunning'
          /\ connAlive' = connAlive
          /\ attempts' = attempts
          /\ exitCode' = None]_vars

\* C4 witness: the alert of a transaction failed and the listener is back on
\* a live subscription, where the next header is received
C4_Witness ==
    /\ AlertFailed(pass)
    /\ lpc = "subscribed"
    /\ connAlive
    /\ exitCode = None

\* C5: after a failed connection attempt and its 5-second delay the listener
\* makes a new connection attempt; it never stops or crashes because a
\* connection could not be established.
C5_RetriesAfterFailure ==
    [][(lpc = "backoff5" /\ ~cancelled /\ lpc' # lpc) =>
          (lpc' = "connecting" /\ exitCode' = None)]_vars

\* C6: when one of the four required settings is missing or empty, the main
\* thread never passes validation: w3 is never initialised, no timer and no
\* listener is started, and the process ends only with status 1.
C6_MissingSettingStartsNothing ==
    SettingMissing =>
        /\ mpc \in {"import", "validate", "exited"}
        /\ w3 = None
        /\ timer = None
        /\ fires = 0
        /\ lpc = "notstarted"
        /\ ~loopRunning
        /\ attempts = 0
        /\ (mpc = "exited" <=> exitCode = Some(1))
        /\ exitCode \in {None, Some(1)}

\* C6 witness: the token is set, another setting is missing, and the
\* process has ended at the validation of line 164
C6_Witness ==
    /\ SettingMissing
    /\ bot # None
    /\ mpc = "exited"
    /\ exitCode = Some(1)

\* C7: two consecutive firings of send_reminder are exactly one period
\* apart.
C7_FixedPeriod ==
    prevFire # None => The(lastFire) - The(prevFire) = REMINDER_INTERVAL

\* C8: once the listener has been started and no cancellation was delivered,
\* the listener is connecting, subscribed, processing or pausing, and the
\* process has not ended.
C8_NoExitWithoutCancellation ==
    (lpc # "notstarted" /\ ~cancelled) => (lpc \in Alive /\ exitCode = None)

\* C9: once a CancelledError has been delivered, the listener has returned
\* (or ended with the CancelledError): it is in no waiting, processing or
\* retrying state.
C9_CancelledListenerReturns ==
    cancelled => lpc \in {"returned", "cancelled"}

\* C10: when the connection is lost under an established subscription, the
\* listener eventually goes back to connecting (unless it is cancelled).
C10_ReconnectsAfterLoss ==
    (lpc \in {"subscribed", "processing", "pause2"} /\ ~connAlive /\ ~cancelled)
        ~> (lpc = "connecting" \/ cancelled)

\* C11 as claimed: an error while a header is processed (block fetch,
\* evaluation, alert sending) makes the listener take the 2-second pause.
C11_ProcessingErrorPauses ==
    [][(lpc = "processing" /\ pass'.err # "none") => lpc' = "pause2"]_vars

\* C11 amended: an error while a header is processed is logged inside
\* handle_new_block and the listener waits again on the same subscription
\* at once, without the pause; an error of receive() takes the 2-second
\* pause and then the listener waits again on the same subscription; in no
\* case is the connection left or a new connection attempt made.
C11_PerHeaderErrorKeepsSubscription ==
    [][/\ (lpc = "processing" /\ pass'.err # "none") =>
              /\ lpc' = "subscribed"
              /\ <<connAlive, attempts, loopRunning, exitCode>>' =
                     <<connAlive, attempts, loopRunning, exitCode>>
       /\ (lpc = "subscribed" /\ lpc' \notin {"subscribed", "processing"}
             /\ ~cancelled') =>
              /\ lpc' = "pause2"
              /\ <<connAlive, attempts, loopRunning, exitCode>>' =
                     <<connAlive, attempts, loopRunning, exitCode>>
       /\ (lpc = "pause2" /\ lpc' # lpc) =>
              /\ lpc' = "subscribed"
              /\ <<connAlive, attempts, loopRunning, exitCode>>' =
                     <<connAlive, attempts, loopRunning, exitCode>>]_vars

\* C11 witness: receive() raised on a live connection and the listener is in
\* its 2-second pause, still inside the first connection
C11_Witness ==
    /\ lpc = "pause2"
    /\ connAlive
    /\ attempts = 1
    /\ loopRunning
    /\ exitCode = None

\* C12: when w3.eth.get_block raises, the pass is abandoned: get_block was
\* called once, no transaction is evaluated, no alert is called or sent,
\* nothing escapes handle_new_block and the listener goes back to receive().
C12_FetchErrorAbandonsBlock ==
    [][(lpc = "processing" /\ lpc' # lpc /\ ~pass'.fetched) =>
          /\ pass'.err = "FetchError"
          /\ pass'.fetches = 1
          /\ pass'.evaluated = 0
          /\ pass'.alertCalls = <<>>
          /\ pass'.sent = <<>>
          /\ lpc' = "subscribed"
          /\ exitCode' = None]_vars

\* C12 witness: a fetch failed and the listener waits for the next header
\* on a live subscription
C12_Witness ==
    /\ pass.err = "FetchError"
    /\ ~pass.fetched
    /\ pass.fetches = 1
    /\ lpc = "subscribed"
    /\ connAlive

\* C13: when the alert of a transaction fails, every later transaction of
\* the block is still evaluated.
C13_AlertFailureKeepsLoop ==
    (Fetched /\ AlertFailed(pass)) => pass.evaluated = Len(pass.block)

\* C14: startup is ordered validation, fetch connection, reminder timer,
\* listener.  The fetch connection is initialised only with every setting
\* present; a timer exists only with a fetch connection that answered the
\* reachability check; the listener has started only with a timer started;
\* and a process that ended before the timer was started ended with status
\* 1 and never started the listener.
C14_StartupOrder ==
    /\ w3 # None => ~SettingMissing
    /\ mpc \in {"start_timer", "start_listener", "listening"} =>
           (w3 # None /\ The(w3).connected)
    /\ timer # None => (w3 # None /\ The(w3).connected)
    /\ (timer = None /\ mpc # "exited") => lpc = "notstarted"
    /\ lpc # "notstarted" => timer # None
    /\ (mpc = "exited" /\ timer = None) =>
           /\ exitCode = Some(1)
           /\ lpc = "notstarted"
           /\ ~loopRunning
           /\ fires = 0

\* C14 witness: every setting is present, the fetch connection was created
\* but is_connected() answered False, and the process has ended
C14_Witness ==
    /\ ~SettingMissing
    /\ w3 # None
    /\ ~The(w3).connected
    /\ mpc = "exited"
    /\ exitCode = Some(1)
    /\ timer = None

\* C15: blocks are processed one at a time: a pass of handle_new_block is
\* in progress exactly while the listener is inside the call of line 147,
\* and the listener takes a header from the subscription only when no pass
\* is in progress.
C15_OneBlockAtATime ==
    /\ (pass.phase = "running") <=> (lpc = "processing")
    /\ lpc = "subscribed" => pass.phase \in {"idle", "done"}
    /\ pass.phase = "done" => pass.fetches = 1

\* C15 witness: the pass over a block is complete and a further header (of
\* the same block) has been received and is being processed
C15_Witness ==
    /\ lpc = "processing"
    /\ pass.phase = "running"
    /\ pass.again # None

\* a reminder is due: the process is alive and a timer is pending (and the
\* model's bound on firings is not reached)
ReminderDue == exitCode = None /\ timer # None /\ fires < MaxFirings

\* C16: a due reminder firing can occur in every state of the listener, a
\* firing changes nothing of the listener or the main thread, and after
\* every firing, successful or failed, a next timer is pending.
C16_ReminderIndependent ==
    /\ [](ReminderDue => ENABLED send_reminder)
    /\ [][fires' # fires =>
             /\ UNCHANGED <<listenerVars, mpc, exitCode>>
             /\ timer' # None]_vars

\* C16 witness: the listener is inside handle_new_block, two reminders have
\* fired, the last one failed, and the next timer is pending
C16_Witness ==
    /\ lpc = "processing"
    /\ fires = 2
    /\ lastReminder = "TelegramError"
    /\ timer # None
    /\ exitCode = None

\* C17: once the listener has been started, no step changes the fetch
\* connection, the bot client, the chat id, the watched address or the
\* other settings.
C17_SharedResourcesReadOnly ==
    [][lpc # "notstarted" => UNCHANGED <<w3, bot, configVars>>]_vars

\* C17 witness: the listener has processed a block, a reminder has fired,
\* and the shared resources are those of startup
C17_Witness ==
    /\ lpc = "subscribed"
    /\ pass.phase = "done"
    /\ fires >= 1
    /\ bot = Some(The(TELEGRAM_BOT_TOKEN))
    /\ w3 # None

C19_SingleTimerChain ==
    /\ Cardinality(timer) <= 1
    /\ fires > 0 =>
           /\ Cardinality(timer) = 1
           /\ \A t \in timer : t >= The(lastFire) + REMINDER_INTERVAL

\* C19 witness: two firings have happened and one successor is pending
C19_Witness ==
    /\ fires = 2
    /\ prevFire # None
    /\ Cardinality(timer) = 1
    /\ exitCode = None

\* C20: whenever handle_new_block runs or has run, w3 is the fetch
\* connection that answered the reachability check.
C20_W3ReadyBeforeProcessing ==
    (lpc = "processing" \/ pass.phase # "idle") =>
        (w3 # None /\ The(w3).connected)

\* C20 witness: a header is being processed
C20_Witness ==
    /\ lpc = "processing"
    /\ pass.phase = "running"
    /\ w3 # None

====
